---- MODULE Spec2Model ----
(***************************************************************************)
(* Model of the class router (src/unnamed/part_002) and of the teacher     *)
(* edit page (src/src/app/dashboard/[role]/teacher/[id]/edit/page.tsx).    *)
(*                                                                         *)
(* These specifications share the module's variables:                      *)
(*   Spec            getGradebook calls racing on the lazy initialization  *)
(*   SpecClass       the class CRUD and search procedures over the store   *)
(*   SpecCreateData  the record createClass builds, over all schema inputs *)
(*   SpecAttendance  getAttendanceStats, a pure reduction of a query result*)
(*   SpecAnalytics   getHistoricalAnalytics and its growth figure          *)
(*   SpecPage        EditTeacherPage and its three concurrent fetches      *)
(*   SpecPageFair    SpecPage with every step of a render eventually taken *)
(* Each specification leaves the other subsystems' variables parked.       *)
(***************************************************************************)
EXTENDS Integers, Sequences, FiniteSets, TLC

VARIABLES
    gradeBooks,       \* the gradeBook table: a set of rows [id, classId]
    nextGradeBookId,  \* the next row id the gradeBook table hands out
    calls,            \* the getGradebook calls in flight, one slot per request
    classes,          \* the class table: a set of rows keyed by id
    resp,             \* the class procedure call being answered, or Idle
    attendance,       \* the attendance table: a sequence of rows
    stats,            \* the getAttendanceStats call being answered, or Idle
    page,             \* one render of EditTeacherPage
    students,         \* the studentProfile table: a sequence of rows
    analytics         \* the getHistoricalAnalytics call being answered, or Idle

vars ==
    <<gradeBooks, nextGradeBookId, calls, classes, resp, attendance, stats, page,
      students, analytics>>

gradebookVars == <<gradeBooks, nextGradeBookId, calls>>

classVars == <<classes, resp>>

attendanceVars == <<attendance, stats>>

pageVars == <<page>>

analyticsVars == <<students, analytics>>

(***************************************************************************)
(* Values shared by the procedures.                                        *)
(***************************************************************************)

\* JavaScript null, as a query result.
Null == [t |-> "null"]

\* An omitted optional input is <<>>, a supplied one is <<v>>.
None == <<>>

Some(v) == <<v>>

\* No call is being answered.
Idle == [op |-> "idle"]

\* Absence of a cause on an error.
NoCause == [name |-> "undefined"]

\* An error raised by the store client. P1001: the database cannot be reached,
\* P2002: unique constraint violated, P2025: the record to change does not exist.
PrismaError(code) == [name |-> "PrismaClientKnownRequestError", code |-> code]

StoreDown == PrismaError("P1001")

UniqueViolation == PrismaError("P2002")

RecordNotFound == PrismaError("P2025")

TRPCError(code, message, cause) ==
    [name |-> "TRPCError", code |-> code, message |-> message, cause |-> cause]

IsTRPCError(e) == e.name = "TRPCError"

\* How a procedure call ends: with a result or with a thrown error.
Return(v) == [status |-> "ok", value |-> v]

Throw(e) == [status |-> "error", error |-> e]

Pending == [status |-> "pending"]

ClassIds == {"c1", "c2"}

(***************************************************************************)
(* getGradebook: src/unnamed/part_002 lines 677-757.                       *)
(***************************************************************************)

Requests == {1, 2}

IdleCall ==
    [pc |-> "idle", classId |-> "", gradeBook |-> Null, newGradeBook |-> Null,
     initOutcome |-> "none", thrown |-> NoCause, result |-> Pending,
     initCalls |-> 0, startedAbsent |-> FALSE, alone |-> TRUE]

\* The rows of the gradeBook table that belong to a class.
GradeBooksOf(rows, classId) == {g \in rows : g.classId = classId}

\* A read that finds no row whatever the table holds.
GradeBookFindUniqueMissesRow(rows, classId) == {Null}

\* gradeBook.findUnique({ where: { classId } }): the row, or null.
GradeBookFindUnique(rows, classId) ==
    IF GradeBooksOf(rows, classId) = {} THEN {Null} ELSE GradeBooksOf(rows, classId)

\* The store's insert without its unique index on classId.
GradeBookCreateNoUnique(rows, id, classId) ==
    Return(rows \cup {[id |-> id, classId |-> classId]})

\* gradeBook.create under the unique index on classId (GradeBook is one-to-one
\* with Class): the table with the new row, or P2002.
GradeBookCreate(rows, id, classId) ==
    IF GradeBooksOf(rows, classId) # {}
    THEN Throw(UniqueViolation)
    ELSE Return(rows \cup {[id |-> id, classId |-> classId]})

\* The catch block of getGradebook: a TRPCError passes unchanged, anything else
\* is wrapped.
GradebookCatchAlwaysWrap(error) ==
    TRPCError("INTERNAL_SERVER_ERROR", "Failed to fetch gradebook", error)

GradebookCatch(error) ==
    IF IsTRPCError(error)
    THEN error
    ELSE TRPCError("INTERNAL_SERVER_ERROR", "Failed to fetch gradebook", error)

\* What the try block does with the re-read: lines 737-744.
RereadOutcomeNoCheck(newGradeBook) == Return(newGradeBook)

RereadOutcome(newGradeBook) ==
    IF newGradeBook = Null
    THEN Throw(TRPCError("NOT_FOUND", "Failed to initialize gradebook", NoCause))
    ELSE Return(newGradeBook)

\* The call's result once the try block has returned or thrown.
Settle(outcome) ==
    IF outcome.status = "error" THEN Throw(GradebookCatch(outcome.error)) ELSE outcome

Active(r) == calls[r].pc \notin {"idle", "done"}

\* A request arrives: the handler is about to issue its first read.
StartGetGradebook(r, classId) ==
    /\ calls[r].pc = "idle"
    /\ calls' = [q \in Requests |->
                    IF q = r
                    THEN [IdleCall EXCEPT !.pc = "findFirst", !.classId = classId,
                            !.startedAbsent = (GradeBooksOf(gradeBooks, classId) = {}),
                            !.alone = \A o \in Requests \ {r} : ~Active(o)]
                    ELSE IF Active(q) THEN [calls[q] EXCEPT !.alone = FALSE]
                    ELSE calls[q]]
    /\ UNCHANGED <<gradeBooks, nextGradeBookId>>
    /\ UNCHANGED <<classVars, attendanceVars, pageVars, analyticsVars>>

\* await ctx.prisma.gradeBook.findUnique(...), lines 683-706 and 747.
FindFirst(r) ==
    /\ calls[r].pc = "findFirst"
    /\ \/ \E g \in GradeBookFindUnique(gradeBooks, calls[r].classId) :
            calls' = [calls EXCEPT ![r] =
                        IF g = Null
                        THEN [@ EXCEPT !.pc = "initialize", !.gradeBook = g]
                        ELSE [@ EXCEPT !.pc = "done", !.gradeBook = g,
                                       !.result = Return(g)]]
       \/ calls' = [calls EXCEPT ![r] =
                        [@ EXCEPT !.pc = "done", !.thrown = StoreDown,
                                  !.result = Settle(Throw(StoreDown))]]
    /\ UNCHANGED <<gradeBooks, nextGradeBookId>>
    /\ UNCHANGED <<classVars, attendanceVars, pageVars, analyticsVars>>

\* await gradeBookService.initializeGradeBook(classId), lines 708-711. The service
\* creates the gradebook with its term structure and assessment periods in the
\* store; it may throw, and it may return having created nothing.
InitializeGradeBook(r) ==
    /\ calls[r].pc = "initialize"
    /\ \/ LET made == GradeBookCreate(gradeBooks, nextGradeBookId, calls[r].classId)
          IN  IF made.status = "ok"
              THEN /\ gradeBooks' = made.value
                   /\ nextGradeBookId' = nextGradeBookId + 1
                   /\ calls' = [calls EXCEPT ![r] =
                                [@ EXCEPT !.pc = "findSecond", !.initOutcome = "created",
                                          !.initCalls = @ + 1]]
              ELSE /\ calls' = [calls EXCEPT ![r] =
                                [@ EXCEPT !.pc = "done", !.initOutcome = "threw",
                                          !.initCalls = @ + 1, !.thrown = made.error,
                                          !.result = Settle(Throw(made.error))]]
                   /\ UNCHANGED <<gradeBooks, nextGradeBookId>>
       \/ /\ calls' = [calls EXCEPT ![r] =
                        [@ EXCEPT !.pc = "done", !.initOutcome = "threw",
                                  !.initCalls = @ + 1, !.thrown = StoreDown,
                                  !.result = Settle(Throw(StoreDown))]]
          /\ UNCHANGED <<gradeBooks, nextGradeBookId>>
       \/ /\ calls' = [calls EXCEPT ![r] =
                        [@ EXCEPT !.pc = "findSecond", !.initOutcome = "noop",
                                  !.initCalls = @ + 1]]
          /\ UNCHANGED <<gradeBooks, nextGradeBookId>>
    /\ UNCHANGED <<classVars, attendanceVars, pageVars, analyticsVars>>

\* The re-read and what follows it, lines 714-744.
FindSecond(r) ==
    /\ calls[r].pc = "findSecond"
    /\ \/ \E g \in GradeBookFindUnique(gradeBooks, calls[r].classId) :
            calls' = [calls EXCEPT ![r] =
                        [@ EXCEPT !.pc = "done", !.newGradeBook = g,
                                  !.thrown = IF RereadOutcome(g).status = "error"
                                             THEN RereadOutcome(g).error ELSE NoCause,
                                  !.result = Settle(RereadOutcome(g))]]
       \/ calls' = [calls EXCEPT ![r] =
                        [@ EXCEPT !.pc = "done", !.thrown = StoreDown,
                                  !.result = Settle(Throw(StoreDown))]]
    /\ UNCHANGED <<gradeBooks, nextGradeBookId>>
    /\ UNCHANGED <<classVars, attendanceVars, pageVars, analyticsVars>>

\* The answer reaches the caller; the request is over.
RespondGradebook(r) ==
    /\ calls[r].pc = "done"
    /\ calls' = [calls EXCEPT ![r] = IdleCall]
    /\ UNCHANGED <<gradeBooks, nextGradeBookId>>
    /\ UNCHANGED <<classVars, attendanceVars, pageVars, analyticsVars>>

(***************************************************************************)
(* The class procedures: src/unnamed/part_002 lines 76-486.                *)
(* A text (a class name, a search string) is a sequence of characters; an  *)
(* identifier or an enum value is a string. Query results are the matching *)
(* rows as a set: the joined relations (include) and the result order      *)
(* (orderBy) are not represented.                                          *)
(***************************************************************************)

Statuses == {"ACTIVE", "INACTIVE", "ARCHIVED"}

Names == {<<"m">>, <<"M", "x">>}

ClassGroupIds == {"g1", "g2"}

\* The teacherProfile table, which no class procedure changes.
TeacherProfiles == {[id |-> "t1", userId |-> "u1"]}

\* JavaScript truthiness of an optional identifier and of an optional text.
TruthyId(o) == o # None /\ o[1] # ""

TruthyText(o) == o # None /\ o[1] # <<>>

Lower(ch) == CASE ch = "M" -> "m" [] ch = "X" -> "x" [] OTHER -> ch

LowerText(text) == [i \in 1..Len(text) |-> Lower(text[i])]

\* { contains: s, mode: 'insensitive' }
ContainsInsensitive(text, s) ==
    \E i \in 1..(Len(text) - Len(s) + 1) :
        SubSeq(LowerText(text), i, i + Len(s) - 1) = LowerText(s)

\* The building, room, tutor and teachers that come with a class input.
ClassExtras ==
    {[buildingId |-> None, roomId |-> None, classTutorId |-> None, teacherIds |-> None],
     [buildingId |-> Some("b1"), roomId |-> Some(""), classTutorId |-> Some("u1"),
      teacherIds |-> Some(<<"u1">>)]}

\* Inputs classCreateSchema accepts (lines 76-87).
ClassInputs ==
    {[name |-> n, classGroupId |-> g, campusId |-> "k1", buildingId |-> x.buildingId,
      roomId |-> x.roomId, capacity |-> 30, status |-> st,
      classTutorId |-> x.classTutorId, teacherIds |-> x.teacherIds,
      description |-> None] :
        n \in Names, g \in ClassGroupIds, st \in Statuses, x \in ClassExtras}

\* Inputs of searchClasses (lines 93-99).
SearchClassesInputs ==
    [classGroupId : {None, Some("g1")},
     search : {None, Some(<<"X">>)},
     teacherId : {None, Some("t1")},
     status : {None} \cup {Some(st) : st \in Statuses},
     campusId : {None, Some("k2")}]

\* Inputs of search (lines 446-455).
SearchInputs ==
    [search : {None, Some(<<"X">>)},
     status : {None} \cup {Some(st) : st \in Statuses},
     classGroupId : {None, Some("g1")},
     teachers : {None, Some("t1")}]

\* The where clause of searchClasses with the status default left out.
SearchClassesWhereNoDefault(input, c) ==
    /\ TruthyId(input.status) => c.status = input.status[1]
    /\ TruthyText(input.search) => ContainsInsensitive(c.name, input.search[1])
    /\ TruthyId(input.classGroupId) => c.classGroupId = input.classGroupId[1]
    /\ TruthyId(input.teacherId) =>
          \E t \in c.teachers : t.teacherId = input.teacherId[1]
    /\ TruthyId(input.campusId) => c.campusId = input.campusId[1]

\* The where clause of searchClasses, lines 103-117.
SearchClassesWhere(input, c) ==
    /\ c.status = (IF TruthyId(input.status) THEN input.status[1] ELSE "ACTIVE")
    /\ TruthyText(input.search) => ContainsInsensitive(c.name, input.search[1])
    /\ TruthyId(input.classGroupId) => c.classGroupId = input.classGroupId[1]
    /\ TruthyId(input.teacherId) =>
          \E t \in c.teachers : t.teacherId = input.teacherId[1]
    /\ TruthyId(input.campusId) => c.campusId = input.campusId[1]

\* The where clause of search, lines 457-466: the supplied filters as they are,
\* and the name filter when a search text is given.
SearchWhere(input, c) ==
    /\ input.status # None => c.status = input.status[1]
    /\ input.classGroupId # None => c.classGroupId = input.classGroupId[1]
    /\ input.teachers # None => \E t \in c.teachers : t.teacherId = input.teachers[1]
    /\ TruthyText(input.search) => ContainsInsensitive(c.name, input.search[1])

\* The user ids createClass looks profiles up for, line 164.
TeacherUserIds(input) ==
    {u \in (IF input.teacherIds = None THEN {}
            ELSE {input.teacherIds[1][i] : i \in 1..Len(input.teacherIds[1])})
           \cup (IF input.classTutorId = None THEN {} ELSE {input.classTutorId[1]}) :
        u # ""}

\* teacherProfile.findMany({ where: { userId: { in } } }), lines 161-167.
TeacherProfileFindMany(userIds) == {p \in TeacherProfiles : p.userId \in userIds}

\* A create record whose room entry connects the building identifier.
ClassCreateDataRoomFromBuilding(input, profiles) ==
    [name |-> input.name,
     classGroupId |-> input.classGroupId,
     campusId |-> input.campusId,
     buildingId |-> IF TruthyId(input.buildingId) THEN input.buildingId ELSE None,
     roomId |-> IF TruthyId(input.roomId) THEN input.buildingId ELSE None,
     capacity |-> input.capacity,
     status |-> input.status,
     description |-> input.description,
     teachers |-> {[teacherId |-> p.id,
                    isClassTeacher |-> (input.classTutorId = Some(p.userId)),
                    status |-> "ACTIVE"] : p \in profiles}]

\* The row createClass asks the store to create, lines 169-187: a relation is the
\* identifier it connects, or None when the record connects nothing.
ClassCreateData(input, profiles) ==
    [name |-> input.name,
     classGroupId |-> input.classGroupId,
     campusId |-> input.campusId,
     buildingId |-> IF TruthyId(input.buildingId) THEN input.buildingId ELSE None,
     roomId |-> IF TruthyId(input.roomId) THEN input.roomId ELSE None,
     capacity |-> input.capacity,
     status |-> input.status,
     description |-> input.description,
     teachers |-> {[teacherId |-> p.id,
                    isClassTeacher |-> (input.classTutorId = Some(p.userId)),
                    status |-> "ACTIVE"] : p \in profiles}]

\* The row updateClass leaves in the store, lines 227-237: the scalar fields are
\* overwritten, the class group is reconnected, campus, building and room only
\* when a truthy identifier is given. classTutorId and teacherIds are handed to the
\* store with the other fields and write no teacher relation.
ClassUpdateData(row, data) ==
    [row EXCEPT !.name = data.name,
                !.capacity = data.capacity,
                !.status = data.status,
                !.description = data.description,
                !.classGroupId = data.classGroupId,
                !.campusId = IF data.campusId # "" THEN data.campusId ELSE @,
                !.buildingId = IF TruthyId(data.buildingId) THEN data.buildingId ELSE @,
                !.roomId = IF TruthyId(data.roomId) THEN data.roomId ELSE @]

ClassById(rows, id) == {c \in rows : c.id = id}

\* class.findUnique({ where: { id } }): the row, or null.
ClassFindUnique(rows, id) ==
    IF ClassById(rows, id) = {} THEN Null ELSE CHOOSE c \in ClassById(rows, id) : TRUE

\* class.delete({ where: { id } }): the deleted row, or P2025 when there is none.
ClassDelete(rows, id) ==
    IF ClassById(rows, id) = {}
    THEN Throw(RecordNotFound)
    ELSE Return(ClassFindUnique(rows, id))

\* class.update({ where: { id }, data }): the updated row, or P2025.
ClassUpdate(rows, id, data) ==
    IF ClassById(rows, id) = {}
    THEN Throw(RecordNotFound)
    ELSE Return(ClassUpdateData(ClassFindUnique(rows, id), data))

\* A store call either is answered, or fails because the store is unreachable.
StoreAnswers(answer) == {answer, Throw(StoreDown)}

\* The error the store raised in a call, for the record of the call.
StoreErrorOf(answer) == IF answer.status = "error" THEN answer.error ELSE NoCause

Answer(op, input, before, answer, result) ==
    [op |-> op, input |-> input, before |-> before,
     storeError |-> StoreErrorOf(answer), result |-> result]

\* try { await store } catch { throw INTERNAL_SERVER_ERROR with cause }: what the
\* caller gets when the store call is awaited inside the try block.
CaughtAs(message, answer) ==
    IF answer.status = "error"
    THEN Throw(TRPCError("INTERNAL_SERVER_ERROR", message, answer.error))
    ELSE answer

\* searchClasses, lines 101-153: the query is awaited inside the try block.
SearchClassesOutcome(answer) == CaughtAs("Failed to fetch classes", answer)

\* createClass, lines 160-213: the profile lookup is awaited inside the try block;
\* the create is returned without await, so its rejection passes the catch block by.
CreateClassOutcome(profilesAnswer, createAnswer) ==
    IF profilesAnswer.status = "error"
    THEN CaughtAs("Failed to create class", profilesAnswer)
    ELSE createAnswer

\* updateClass, lines 226-260: the update is returned without await.
UpdateClassOutcome(answer) == answer

\* A deleteClass that reports a missing row as a success.
DeleteClassOutcomeSilent(answer) ==
    IF answer.status = "error" /\ answer.error = RecordNotFound
    THEN Return(Null)
    ELSE answer

\* deleteClass, lines 266-270: no try block.
DeleteClassOutcome(answer) == answer

\* getClassDetails, lines 314-362: no try block; null becomes NOT_FOUND.
GetClassDetailsOutcome(answer) ==
    IF answer.status = "ok" /\ answer.value = Null
    THEN Throw(TRPCError("NOT_FOUND", "Class not found", NoCause))
    ELSE answer

\* list, lines 368-400: no session is UNAUTHORIZED; the query is returned
\* without await.
ListOutcome(session, answer) ==
    IF ~session
    THEN Throw(TRPCError("UNAUTHORIZED",
                         "You must be logged in to access this resource", NoCause))
    ELSE answer

SearchClasses(input) ==
    /\ resp = Idle
    /\ \E answer \in StoreAnswers(Return({c \in classes : SearchClassesWhere(input, c)})) :
          resp' = Answer("searchClasses", input, classes, answer,
                         SearchClassesOutcome(answer))
    /\ UNCHANGED <<classes, gradebookVars, attendanceVars, pageVars, analyticsVars>>

CreateClass(input) ==
    /\ resp = Idle
    /\ \E id \in ClassIds :
          /\ ClassById(classes, id) = {}
          /\ \E profilesAnswer \in
                   StoreAnswers(Return(TeacherProfileFindMany(TeacherUserIds(input)))) :
                IF profilesAnswer.status = "error"
                THEN /\ resp' = Answer("createClass", input, classes, profilesAnswer,
                                       CreateClassOutcome(profilesAnswer, profilesAnswer))
                     /\ UNCHANGED classes
                ELSE \E createAnswer \in
                           StoreAnswers(Return([id |-> id] @@
                               ClassCreateData(input, profilesAnswer.value))) :
                        /\ resp' = Answer("createClass", input, classes, createAnswer,
                                          CreateClassOutcome(profilesAnswer, createAnswer))
                        /\ classes' = IF createAnswer.status = "ok"
                                      THEN classes \cup {createAnswer.value}
                                      ELSE classes
    /\ UNCHANGED <<gradebookVars, attendanceVars, pageVars, analyticsVars>>

UpdateClass(id, data) ==
    /\ resp = Idle
    /\ \E answer \in StoreAnswers(ClassUpdate(classes, id, data)) :
          /\ resp' = Answer("updateClass", [id |-> id, data |-> data], classes, answer,
                            UpdateClassOutcome(answer))
          /\ classes' = IF answer.status = "ok"
                        THEN (classes \ ClassById(classes, id)) \cup {answer.value}
                        ELSE classes
    /\ UNCHANGED <<gradebookVars, attendanceVars, pageVars, analyticsVars>>

DeleteClass(id) ==
    /\ resp = Idle
    /\ \E answer \in StoreAnswers(ClassDelete(classes, id)) :
          /\ resp' = Answer("deleteClass", id, classes, answer, DeleteClassOutcome(answer))
          /\ classes' = IF answer.status = "ok"
                        THEN classes \ ClassById(classes, id)
                        ELSE classes
    /\ UNCHANGED <<gradebookVars, attendanceVars, pageVars, analyticsVars>>

\* getClass, lines 272-302: no try block.
GetClass(id) ==
    /\ resp = Idle
    /\ \E answer \in StoreAnswers(Return(ClassFindUnique(classes, id))) :
          resp' = Answer("getClass", id, classes, answer, answer)
    /\ UNCHANGED <<classes, gradebookVars, attendanceVars, pageVars, analyticsVars>>

GetClassDetails(id) ==
    /\ resp = Idle
    /\ \E answer \in StoreAnswers(Return(ClassFindUnique(classes, id))) :
          resp' = Answer("getClassDetails", [id |-> id], classes, answer,
                         GetClassDetailsOutcome(answer))
    /\ UNCHANGED <<classes, gradebookVars, attendanceVars, pageVars, analyticsVars>>

List(session) ==
    /\ resp = Idle
    /\ IF ~session
       THEN resp' = Answer("list", None, classes, Return({}), ListOutcome(session, Return({})))
       ELSE \E answer \in StoreAnswers(Return(classes)) :
               resp' = Answer("list", None, classes, answer, ListOutcome(session, answer))
    /\ UNCHANGED <<classes, gradebookVars, attendanceVars, pageVars, analyticsVars>>

\* getById, lines 403-443: no try block.
GetById(id) ==
    /\ resp = Idle
    /\ \E answer \in StoreAnswers(Return(ClassFindUnique(classes, id))) :
          resp' = Answer("getById", id, classes, answer, answer)
    /\ UNCHANGED <<classes, gradebookVars, attendanceVars, pageVars, analyticsVars>>

\* search, lines 456-486: no try block.
Search(input) ==
    /\ resp = Idle
    /\ \E answer \in StoreAnswers(Return({c \in classes : SearchWhere(input, c)})) :
          resp' = Answer("search", input, classes, answer, answer)
    /\ UNCHANGED <<classes, gradebookVars, attendanceVars, pageVars, analyticsVars>>

\* The answer reaches the caller.
RespondClass ==
    /\ resp # Idle
    /\ resp' = Idle
    /\ UNCHANGED <<classes, gradebookVars, attendanceVars, pageVars, analyticsVars>>

\* Inputs classCreateSchema accepts (lines 76-87), over every way of giving or
\* omitting the optional identifiers: z.string().optional() accepts the empty
\* string, z.string().min(1) does not.
ClassCreateInputs ==
    [name : Names,
     classGroupId : ClassGroupIds,
     campusId : {"k1", "k2"},
     buildingId : {None, Some(""), Some("b1")},
     roomId : {None, Some(""), Some("r1")},
     capacity : {30},
     status : Statuses,
     classTutorId : {None, Some("u1")},
     teacherIds : {None, Some(<<"u1">>)},
     description : {None}]

\* createClass up to the point where it hands its record to the store, lines
\* 160-187, with the profile lookup answered.
BuildClassCreateData ==
    /\ resp.op = "createClassInput"
    /\ resp' = [op |-> "createClassData", input |-> resp.input,
                data |-> ClassCreateData(resp.input,
                            TeacherProfileFindMany(TeacherUserIds(resp.input)))]
    /\ UNCHANGED <<classes, gradebookVars, attendanceVars, pageVars, analyticsVars>>

(***************************************************************************)
(* getAttendanceStats: src/unnamed/part_002 lines 629-675.                 *)
(* A Date is a number of hours since the epoch. A number the procedure     *)
(* computes is an exact fraction [num, den] in lowest terms with den > 0   *)
(* (the code computes in IEEE doubles, which round).                       *)
(***************************************************************************)

MaxAttendance == 4

AttendanceStatuses == {"PRESENT", "ABSENT"}

AttendanceDates == {23, 24, 47}

AttendanceRows ==
    [classId : ClassIds, date : AttendanceDates, status : AttendanceStatuses]

AttendanceTables == UNION {[1..n -> AttendanceRows] : n \in 0..MaxAttendance}

\* The date ranges a caller asks for: [startDate, endDate].
DateRanges == {<<0, 47>>, <<24, 47>>}

RECURSIVE Gcd(_, _)
Gcd(a, b) == IF b = 0 THEN a ELSE Gcd(b, a % b)

\* n / d in lowest terms.
Frac(n, d) == [num |-> n \div Gcd(n, d), den |-> d \div Gcd(n, d)]

FracAdd(x, y) == Frac(x.num * y.den + y.num * x.den, x.den * y.den)

\* record.date.toISOString().split('T')[0]: the UTC calendar day of a Date.
DateOf(date) == date \div 24

\* attendance.findMany({ where: { student: { classId }, date: { gte, lte } } }),
\* lines 639-649: the matching rows in table order.
AttendanceFindMany(table, id, startDate, endDate) ==
    SelectSeq(table, LAMBDA row : /\ row.classId = id
                                  /\ row.date >= startDate
                                  /\ row.date <= endDate)

\* The position of a day among the entries grouped so far, or 0.
IndexOfDate(acc, d) ==
    IF \E i \in 1..Len(acc) : acc[i].date = d
    THEN CHOOSE i \in 1..Len(acc) : acc[i].date = d
    ELSE 0

\* One step of the reduce, lines 652-661: entries keep the order in which their
\* day first appears (the insertion order of the object's keys).
AddRecord(acc, record) ==
    LET d == DateOf(record.date)
        p == IF record.status = "PRESENT" THEN 1 ELSE 0
        i == IndexOfDate(acc, d)
    IN  IF i = 0
        THEN Append(acc, [date |-> d, present |-> p, total |-> 1])
        ELSE [acc EXCEPT ![i] = [@ EXCEPT !.present = @ + p, !.total = @ + 1]]

RECURSIVE AttendanceByDate(_)
AttendanceByDate(records) ==
    IF records = <<>>
    THEN <<>>
    ELSE AddRecord(AttendanceByDate(SubSeq(records, 1, Len(records) - 1)),
                   records[Len(records)])

\* A rate that leaves out the multiplication by 100.
AttendanceRateNoPercent(day) == Frac(day.present, day.total)

\* (stats.present / stats.total) * 100, line 666.
AttendanceRate(day) == Frac(day.present * 100, day.total)

\* lines 664-667.
Trends(byDate) ==
    [i \in 1..Len(byDate) |->
        [date |-> byDate[i].date, attendanceRate |-> AttendanceRate(byDate[i])]]

RECURSIVE SumRates(_)
SumRates(trends) ==
    IF trends = <<>>
    THEN Frac(0, 1)
    ELSE FracAdd(SumRates(SubSeq(trends, 1, Len(trends) - 1)),
                 trends[Len(trends)].attendanceRate)

RECURSIVE CountPresent(_)
CountPresent(records) ==
    IF records = <<>>
    THEN 0
    ELSE CountPresent(Tail(records)) + (IF Head(records).status = "PRESENT" THEN 1 ELSE 0)

\* An average taken over all records at once: present / total * 100.
AverageAttendanceGlobal(records, trends) ==
    IF Len(records) > 0 THEN Frac(CountPresent(records) * 100, Len(records)) ELSE Frac(0, 1)

\* lines 671-673: the mean of the per-day rates, 0 without any day.
AverageAttendance(records, trends) ==
    IF Len(trends) > 0
    THEN Frac(SumRates(trends).num, SumRates(trends).den * Len(trends))
    ELSE Frac(0, 1)

\* The object the procedure returns, lines 669-674.
AttendanceStats(records) ==
    [trends |-> Trends(AttendanceByDate(records)),
     averageAttendance |-> AverageAttendance(records, Trends(AttendanceByDate(records)))]

\* The procedure has no try block: a store failure reaches the caller as it is.
GetAttendanceStats(id, startDate, endDate) ==
    /\ stats = Idle
    /\ \E answer \in StoreAnswers(Return(AttendanceFindMany(attendance, id,
                                                            startDate, endDate))) :
          stats' = [op |-> "getAttendanceStats",
                    input |-> [id |-> id, startDate |-> startDate, endDate |-> endDate],
                    records |-> IF answer.status = "ok" THEN answer.value ELSE <<>>,
                    result |-> IF answer.status = "ok"
                               THEN Return(AttendanceStats(answer.value))
                               ELSE answer]
    /\ UNCHANGED <<attendance, gradebookVars, classVars, pageVars, analyticsVars>>

\* The answer reaches the caller.
RespondStats ==
    /\ stats # Idle
    /\ stats' = Idle
    /\ UNCHANGED <<attendance, gradebookVars, classVars, pageVars, analyticsVars>>

(***************************************************************************)
(* getHistoricalAnalytics: src/unnamed/part_002 lines 533-564.             *)
(* A studentProfile row is its id, its class and its creation Date in      *)
(* hours. The id is the table's key, a string: rows have distinct ids, and *)
(* the empty string is a string.                                           *)
(***************************************************************************)

MaxStudents == 3

StudentIds == {"", "s1", "s2", "s3"}

StudentRows == [id : StudentIds, classId : ClassIds, createdAt : {23, 24}]

StudentTables ==
    {table \in UNION {[1..n -> StudentRows] : n \in 0..MaxStudents} :
        \A i, j \in 1..Len(table) : table[i].id = table[j].id => i = j}

\* studentProfile.findMany({ where: { classId, createdAt: { gte, lte } } }), lines
\* 543-551: the matching rows in table order.
StudentFindMany(table, id, startDate, endDate) ==
    SelectSeq(table, LAMBDA row : /\ row.classId = id
                                  /\ row.createdAt >= startDate
                                  /\ row.createdAt <= endDate)

\* x ? 1 : 0 for an id.
OneIfId(id) == IF id # "" THEN 1 ELSE 0

\* A growth taken from the number of students: from one student to all of them.
StudentGrowthByCount(historicalStudents) ==
    IF Len(historicalStudents) > 1 THEN (Len(historicalStudents) - 1) * 100 ELSE 0

\* lines 554-558.
StudentGrowth(historicalStudents) ==
    IF Len(historicalStudents) > 1
    THEN ((OneIfId(historicalStudents[Len(historicalStudents)].id)
             - OneIfId(historicalStudents[1].id))
          \div (IF historicalStudents[1].id # "" THEN 1 ELSE 1)) * 100
    ELSE 0

\* The object the procedure returns, lines 560-563.
HistoricalAnalytics(historicalStudents) ==
    [studentGrowth |-> StudentGrowth(historicalStudents),
     historicalData |-> historicalStudents]

\* The procedure has no try block: a store failure reaches the caller as it is.
GetHistoricalAnalytics(id, startDate, endDate) ==
    /\ analytics = Idle
    /\ \E answer \in StoreAnswers(Return(StudentFindMany(students, id,
                                                         startDate, endDate))) :
          analytics' = [op |-> "getHistoricalAnalytics",
                        input |-> [id |-> id, startDate |-> startDate,
                                   endDate |-> endDate],
                        result |-> IF answer.status = "ok"
                                   THEN Return(HistoricalAnalytics(answer.value))
                                   ELSE answer]
    /\ UNCHANGED <<students, gradebookVars, classVars, attendanceVars, pageVars>>

\* The answer reaches the caller.
RespondAnalytics ==
    /\ analytics # Idle
    /\ analytics' = Idle
    /\ UNCHANGED <<students, gradebookVars, classVars, attendanceVars, pageVars>>

(***************************************************************************)
(* EditTeacherPage: src/src/app/dashboard/[role]/teacher/[id]/edit/page.tsx*)
(* The file holds two definitions of the page (lines 16-100 and 135-222);  *)
(* which of them a build serves is not fixed by the file, so a render runs *)
(* either. JavaScript values are tagged: null, undefined, a string, an     *)
(* array; an object is a record, and a property it lacks reads undefined.  *)
(***************************************************************************)

Undefined == [t |-> "undefined"]

Str(s) == [t |-> "string", v |-> s]

Arr(a) == [t |-> "array", v |-> a]

\* null ?? undefined and undefined ?? undefined are undefined; anything else stays.
NullishToUndefined(v) == IF v \in {Null, Undefined} THEN Undefined ELSE v

\* JavaScript truthiness of a value that is null, undefined, a string, an array
\* or an object.
Truthy(v) == v \notin {Null, Undefined, Str("")}

\* v || d
OrElse(v, d) == IF Truthy(v) THEN v ELSE d

\* obj?.field
OptionalField(obj, field) == IF obj \in {Null, Undefined} THEN Undefined ELSE obj[field]

\* obj.field, undefined when the object has no such property.
Get(obj, field) == IF field \in DOMAIN obj THEN obj[field] ELSE Undefined

\* The teacher profiles a stored teacher may have.
Profiles ==
    {[id |-> Str("t1"), teacherType |-> Str("SUBJECT"), specialization |-> Null,
      subjectIds |-> Arr(<<>>), classIds |-> Arr(<<>>), campusIds |-> Arr(<<>>)],
     [id |-> Str("t1"), teacherType |-> Str("SUBJECT"), specialization |-> Str("math"),
      subjectIds |-> Arr(<<"s1">>), classIds |-> Arr(<<"c1">>),
      campusIds |-> Arr(<<"k1">>)]}

\* What teacher.getById may answer: null, or a teacher (interface Teacher, lines
\* 7-14 and 107-121).
Teachers ==
    [id : {Str("u1")},
     name : {Null, Str(""), Str("Ann")},
     email : {Null, Str("ann@x")},
     phoneNumber : {Null, Str("555")},
     status : {Str("ACTIVE")},
     teacherProfile : {Null, Undefined} \cup Profiles]

\* What a fetch may throw: an Error object, or something that is not one.
FetchErrors == {[isError |-> TRUE, message |-> "fetch failed"], [isError |-> FALSE]}

\* The answers of the three fetches of a render.
FetchAnswers(which) ==
    {Throw(e) : e \in FetchErrors}
        \cup (IF which = "teacher"
              THEN {Return(x) : x \in Teachers \cup {Null}}
              ELSE IF which = "subjects"
              THEN {Return(Arr(<<"s1">>))}
              ELSE {Return(Arr(<<"c1">>))})

Fetches == {"teacher", "subjects", "classes"}

\* sanitizedTeacher of the first definition, lines 57-67.
SanitizedTeacher1(teacher) ==
    [teacher EXCEPT
        !.name = NullishToUndefined(@),
        !.email = NullishToUndefined(@),
        !.phoneNumber = NullishToUndefined(@),
        !.teacherProfile =
            IF Truthy(@)
            THEN [@ EXCEPT !.specialization = NullishToUndefined(@)]
            ELSE Undefined]

\* sanitizedTeacher of the second definition, lines 180-189.
SanitizedTeacher2(teacher) ==
    [name |-> OrElse(teacher.name, Str("")),
     email |-> OrElse(teacher.email, Str("")),
     phoneNumber |-> OrElse(teacher.phoneNumber, Str("")),
     teacherType |-> OrElse(OptionalField(teacher.teacherProfile, "teacherType"),
                            Str("CLASS")),
     specialization |-> OrElse(OptionalField(teacher.teacherProfile, "specialization"),
                               Str("")),
     campusIds |-> OrElse(OptionalField(teacher.teacherProfile, "campusIds"), Arr(<<>>)),
     subjectIds |-> OrElse(OptionalField(teacher.teacherProfile, "subjectIds"), Arr(<<>>)),
     classIds |-> OrElse(OptionalField(teacher.teacherProfile, "classIds"), Arr(<<>>))]

SanitizedTeacher(defn, teacher) ==
    IF defn = 1 THEN SanitizedTeacher1(teacher) ELSE SanitizedTeacher2(teacher)

\* A catch block that shows the generic message for every error.
ErrorDisplayGeneric(error) == [state |-> "error", message |-> "Unknown error"]

\* The catch block, lines 86-98 and 208-220.
ErrorDisplay(error) ==
    [state |-> "error",
     message |-> IF error.isError THEN error.message ELSE "Unknown error"]

\* What the page shows once all three fetches have answered, lines 45-85 and
\* 168-207.
LoadedDisplay(defn, id, teacher, subjectList, classList) ==
    IF teacher = Null
    THEN [state |-> "notFound", message |-> "Teacher not found"]
    ELSE [state |-> "form", teacherId |-> id,
          initialData |-> SanitizedTeacher(defn, teacher),
          subjects |-> subjectList, classes |-> classList]

NoDisplay == [state |-> "none"]

\* A request for the page arrives.
NewRender(defn, id) ==
    [pc |-> "start", defn |-> defn, id |-> id,
     fetch |-> [f \in Fetches |-> Pending],
     all |-> Pending, display |-> NoDisplay]

\* Lines 21-43 and 140-166: an empty id is answered at once; otherwise the three
\* fetches are issued together and the page awaits Promise.all of them.
BeginRender ==
    /\ page.pc = "start"
    /\ page' = IF page.id = ""
               THEN [page EXCEPT !.pc = "done",
                        !.display = [state |-> "invalid",
                                     message |-> "Invalid teacher ID"]]
               ELSE [page EXCEPT !.pc = "awaiting"]
    /\ UNCHANGED <<gradebookVars, classVars, attendanceVars, analyticsVars>>

\* Promise.all after one more of its promises has settled: it rejects with the
\* first rejection, and fulfils once every promise has fulfilled.
PromiseAll(all, fetch) ==
    IF all.status # "pending"
    THEN all
    ELSE IF \E f \in Fetches : fetch[f].status = "error"
    THEN Throw(fetch[CHOOSE f \in Fetches : fetch[f].status = "error"].error)
    ELSE IF \A f \in Fetches : fetch[f].status = "ok"
    THEN Return(fetch)
    ELSE all

\* One of the pending fetches answers; the order among the three is free.
CompleteFetch(which, answer) ==
    /\ page.pc \in {"awaiting", "done"}
    /\ page.id # ""
    /\ page.fetch[which] = Pending
    /\ page' = [page EXCEPT
                  !.fetch[which] = answer,
                  !.all = PromiseAll(page.all, [page.fetch EXCEPT ![which] = answer])]
    /\ UNCHANGED <<gradebookVars, classVars, attendanceVars, analyticsVars>>

\* The await resumes once Promise.all has settled.
FinishRender ==
    /\ page.pc = "awaiting"
    /\ page.all.status # "pending"
    /\ page' = [page EXCEPT
                  !.pc = "done",
                  !.display =
                      IF page.all.status = "error"
                      THEN ErrorDisplay(page.all.error)
                      ELSE LoadedDisplay(page.defn, page.id,
                                         page.all.value["teacher"].value,
                                         page.all.value["subjects"].value,
                                         page.all.value["classes"].value)]
    /\ UNCHANGED <<gradebookVars, classVars, attendanceVars, analyticsVars>>

ParkedGradebook ==
    /\ gradeBooks = {}
    /\ nextGradeBookId = 1
    /\ calls = [r \in Requests |-> IdleCall]

ParkedClass ==
    /\ classes = {}
    /\ resp = Idle

ParkedAttendance ==
    /\ attendance = <<>>
    /\ stats = Idle

ParkedPage == page = Idle

ParkedAnalytics ==
    /\ students = <<>>
    /\ analytics = Idle

Init ==
    /\ ParkedGradebook
    /\ ParkedClass
    /\ ParkedAttendance
    /\ ParkedPage
    /\ ParkedAnalytics

Next ==
    \/ \E r \in Requests, c \in ClassIds : StartGetGradebook(r, c)
    \/ \E r \in Requests : FindFirst(r)
    \/ \E r \in Requests : InitializeGradeBook(r)
    \/ \E r \in Requests : FindSecond(r)
    \/ \E r \in Requests : RespondGradebook(r)

Spec == Init /\ [][Next]_vars

InitClass ==
    /\ ParkedGradebook
    /\ classes = {}
    /\ resp = Idle
    /\ ParkedAttendance
    /\ ParkedPage
    /\ ParkedAnalytics

NextClass ==
    \/ \E input \in SearchClassesInputs : SearchClasses(input)
    \/ \E input \in ClassInputs : CreateClass(input)
    \/ \E id \in ClassIds, data \in ClassInputs : UpdateClass(id, data)
    \/ \E id \in ClassIds : DeleteClass(id)
    \/ \E id \in ClassIds : GetClass(id)
    \/ \E id \in ClassIds : GetClassDetails(id)
    \/ \E session \in BOOLEAN : List(session)
    \/ \E id \in ClassIds : GetById(id)
    \/ \E input \in SearchInputs : Search(input)
    \/ RespondClass

SpecClass == InitClass /\ [][NextClass]_vars

InitCreateData ==
    /\ ParkedGradebook
    /\ classes = {}
    /\ resp \in {[op |-> "createClassInput", input |-> input] :
                    input \in ClassCreateInputs}
    /\ ParkedAttendance
    /\ ParkedPage
    /\ ParkedAnalytics

NextCreateData == BuildClassCreateData

SpecCreateData == InitCreateData /\ [][NextCreateData]_vars

InitAttendance ==
    /\ ParkedGradebook
    /\ ParkedClass
    /\ attendance \in AttendanceTables
    /\ stats = Idle
    /\ ParkedPage
    /\ ParkedAnalytics

NextAttendance ==
    \/ \E range \in DateRanges : GetAttendanceStats("c1", range[1], range[2])
    \/ RespondStats

SpecAttendance == InitAttendance /\ [][NextAttendance]_vars

InitAnalytics ==
    /\ ParkedGradebook
    /\ ParkedClass
    /\ ParkedAttendance
    /\ ParkedPage
    /\ students \in StudentTables
    /\ analytics = Idle

NextAnalytics ==
    \/ \E range \in DateRanges : GetHistoricalAnalytics("c1", range[1], range[2])
    \/ RespondAnalytics

SpecAnalytics == InitAnalytics /\ [][NextAnalytics]_vars

InitPage ==
    /\ ParkedGradebook
    /\ ParkedClass
    /\ ParkedAttendance
    /\ page \in {NewRender(defn, id) : defn \in {1, 2}, id \in {"", "u1"}}
    /\ ParkedAnalytics

NextPage ==
    \/ BeginRender
    \/ \E which \in Fetches : \E answer \in FetchAnswers(which) :
          CompleteFetch(which, answer)
    \/ FinishRender

SpecPage == InitPage /\ [][NextPage]_vars

\* A render under the scheduling the runtime gives it: the synchronous first part
\* runs, every query promise settles, and the await resumes once Promise.all has
\* settled. Each step of a render is one of these, so a render that can step does.
SpecPageFair == SpecPage /\ WF_vars(NextPage)

(***************************************************************************)
(* Claims about getGradebook, checked under Spec.                          *)
(***************************************************************************)

\* A finished call that was the only one running and started with no gradebook.
Solo(r) ==
    /\ calls[r].pc = "done"
    /\ calls[r].startedAbsent
    /\ calls[r].alone

\* C1 as stated: a single getGradebook call for a class with no gradebook invokes
\* the initialization exactly once, leaves exactly one gradebook for the class and
\* returns that gradebook, never an error.
C1_SingleCallAlwaysReturnsGradebook ==
    \A r \in Requests :
        Solo(r) =>
            /\ calls[r].initCalls = 1
            /\ Cardinality(GradeBooksOf(gradeBooks, calls[r].classId)) = 1
            /\ calls[r].result.status = "ok"
            /\ calls[r].result.value \in GradeBooksOf(gradeBooks, calls[r].classId)

\* C1 amended: such a call invokes the initialization at most once, exactly once
\* when its first read succeeds; when the initialization creates the gradebook and
\* the re-read succeeds, exactly one gradebook exists for the class and the call
\* returns it; otherwise the call ends in a NOT_FOUND or INTERNAL_SERVER_ERROR
\* error, and it never returns null.
C1_SingleCallCreatesOnceOrFails ==
    \A r \in Requests :
        Solo(r) =>
            /\ calls[r].initCalls = (IF calls[r].initOutcome = "none" THEN 0 ELSE 1)
            /\ (calls[r].initOutcome = "none") = (calls[r].thrown = StoreDown
                                                   /\ calls[r].gradeBook = Null
                                                   /\ calls[r].initCalls = 0)
            /\ IF calls[r].initOutcome = "created" /\ calls[r].thrown # StoreDown
               THEN /\ calls[r].result.status = "ok"
                    /\ calls[r].result.value # Null
                    /\ GradeBooksOf(gradeBooks, calls[r].classId) = {calls[r].result.value}
               ELSE /\ calls[r].result.status = "error"
                    /\ IsTRPCError(calls[r].result.error)
                    /\ calls[r].result.error.code \in {"NOT_FOUND", "INTERNAL_SERVER_ERROR"}

\* C1 witness: a lone call found no gradebook, initialized once and returned the
\* one gradebook of its class.
C1_Witness ==
    \E r \in Requests :
        /\ Solo(r)
        /\ calls[r].initCalls = 1
        /\ calls[r].initOutcome = "created"
        /\ calls[r].result.status = "ok"
        /\ GradeBooksOf(gradeBooks, calls[r].classId) = {calls[r].result.value}

\* C2: whatever the interleaving of getGradebook calls that start while the
\* gradebook of a class is absent, the store never holds two gradebook rows for
\* that class.
C2_NoDuplicateGradebook ==
    \A c \in ClassIds : Cardinality(GradeBooksOf(gradeBooks, c)) <= 1

\* C2 witness: two calls for the same class both started while its gradebook was
\* absent, both read null and both invoked the initialization.
C2_Witness ==
    \E r1, r2 \in Requests :
        /\ r1 # r2
        /\ calls[r1].classId = calls[r2].classId
        /\ calls[r1].startedAbsent /\ calls[r2].startedAbsent
        /\ calls[r1].initCalls = 1 /\ calls[r2].initCalls = 1
        /\ Cardinality(GradeBooksOf(gradeBooks, calls[r1].classId)) = 1

\* The initialization returned without throwing and the re-read found nothing.
RereadFoundNothing(r) ==
    /\ calls[r].pc = "done"
    /\ calls[r].gradeBook = Null
    /\ calls[r].initOutcome \in {"created", "noop"}
    /\ calls[r].thrown # StoreDown
    /\ calls[r].newGradeBook = Null

\* A read or the initialization threw something that is not a TRPCError.
ThrewUncategorized(r) ==
    /\ calls[r].pc = "done"
    /\ calls[r].thrown # NoCause
    /\ ~IsTRPCError(calls[r].thrown)

\* C5: when the initialization completes without throwing and the re-read finds no
\* gradebook the call fails with NOT_FOUND 'Failed to initialize gradebook', passed
\* on unchanged; a read or initialization failure that is not a TRPCError becomes
\* INTERNAL_SERVER_ERROR with that failure as cause.
C5_NotFoundPassesUncategorizedWrapped ==
    \A r \in Requests :
        /\ RereadFoundNothing(r) =>
              calls[r].result =
                 Throw(TRPCError("NOT_FOUND", "Failed to initialize gradebook", NoCause))
        /\ ThrewUncategorized(r) =>
              calls[r].result =
                 Throw(TRPCError("INTERNAL_SERVER_ERROR", "Failed to fetch gradebook",
                                 calls[r].thrown))

\* C5 witness: one finished call whose re-read found nothing and another whose
\* initialization threw a store error.
C5_Witness ==
    \E r1, r2 \in Requests :
        /\ RereadFoundNothing(r1)
        /\ ThrewUncategorized(r2)
        /\ calls[r2].initOutcome = "threw"

\* A finished call for a class whose gradebook was present when the call began.
FoundPresent(r) ==
    /\ calls[r].pc = "done"
    /\ ~calls[r].startedAbsent

\* The step is one of a call for a class whose gradebook was present when the
\* call began.
StepOfPresentCall(r) ==
    /\ calls[r].pc \notin {"idle", "done"}
    /\ ~calls[r].startedAbsent
    /\ calls'[r] # calls[r]

\* C13: a getGradebook call for a class whose gradebook is already present never
\* invokes the initialization and reads once; when the store answers that read
\* the call returns the class's gradebook, and when the store fails it the call
\* fails with INTERNAL_SERVER_ERROR; no step of such a call changes the gradebook
\* records; and once a class has a gradebook every later state holds that same
\* gradebook for the class, whatever calls run.
C13_PresentGradebookIsReadOnly ==
    /\ [](\A r \in Requests :
            FoundPresent(r) =>
                /\ calls[r].initCalls = 0
                /\ calls[r].initOutcome = "none"
                /\ calls[r].newGradeBook = Null
                /\ IF calls[r].thrown = NoCause
                   THEN /\ calls[r].result.status = "ok"
                        /\ GradeBooksOf(gradeBooks, calls[r].classId)
                              = {calls[r].result.value}
                   ELSE calls[r].result =
                           Throw(TRPCError("INTERNAL_SERVER_ERROR",
                                           "Failed to fetch gradebook", StoreDown)))
    /\ [][\A r \in Requests : StepOfPresentCall(r) => gradeBooks' = gradeBooks]_vars
    /\ [][\A c \in ClassIds :
            GradeBooksOf(gradeBooks, c) # {} =>
                GradeBooksOf(gradeBooks', c) = GradeBooksOf(gradeBooks, c)]_vars

\* C13 witness: while one call is past its read of a class whose gradebook it
\* found absent, another call for a class whose gradebook was present has
\* returned that gradebook without initializing.
C13_Witness ==
    \E r1, r2 \in Requests :
        /\ FoundPresent(r1)
        /\ calls[r1].result.status = "ok"
        /\ calls[r1].result.value \in gradeBooks
        /\ calls[r1].initCalls = 0
        /\ calls[r2].pc = "findSecond"
        /\ calls[r2].initOutcome = "created"

(***************************************************************************)
(* Claims about the class procedures, checked under SpecClass.             *)
(***************************************************************************)

\* C3: in every class procedure a failure of the store call reaches the caller
\* only as a TRPCError of code NOT_FOUND, UNAUTHORIZED or INTERNAL_SERVER_ERROR
\* with the store's error as cause, never as the raw store error.
C3_StoreFailuresAreCategorized ==
    (resp.op # "idle" /\ resp.storeError # NoCause) =>
        /\ resp.result.status = "error"
        /\ IsTRPCError(resp.result.error)
        /\ resp.result.error.code \in {"NOT_FOUND", "UNAUTHORIZED", "INTERNAL_SERVER_ERROR"}
        /\ resp.result.error.cause = resp.storeError

\* An error that is the store's error, or has it as cause.
Carries(error, storeError) ==
    \/ error = storeError
    \/ IsTRPCError(error) /\ error.cause = storeError

\* deleteClass was called with an identifier no class has.
DeletedMissing ==
    /\ resp.op = "deleteClass"
    /\ ClassById(resp.before, resp.input) = {}

\* C4: deleteClass with an identifier for which no class exists ends in a failure
\* that carries the store's not-found error (the store's own failure when it
\* cannot be reached at all), never in a success, and leaves the stored classes
\* as they were.
C4_DeleteMissingFails ==
    DeletedMissing =>
        /\ resp.result.status = "error"
        /\ IF resp.storeError = StoreDown
           THEN Carries(resp.result.error, StoreDown)
           ELSE Carries(resp.result.error, RecordNotFound)
        /\ classes = resp.before

\* C4 witness: a delete of a missing identifier, answered by the store with
\* P2025, while another class is stored.
C4_Witness ==
    /\ DeletedMissing
    /\ resp.storeError = RecordNotFound
    /\ resp.result = Throw(RecordNotFound)
    /\ classes # {}

NoFilters(input) ==
    /\ input.search = None
    /\ input.classGroupId = None
    /\ input.teacherId = None
    /\ input.campusId = None

\* C6: searchClasses with no filters returns exactly the ACTIVE classes; a
\* supplied status replaces the default and only classes of that status return.
C6_SearchClassesDefaultsToActive ==
    (resp.op = "searchClasses" /\ resp.result.status = "ok") =>
        /\ (NoFilters(resp.input) /\ resp.input.status = None) =>
              resp.result.value = {c \in classes : c.status = "ACTIVE"}
        /\ resp.input.status # None =>
              \A c \in resp.result.value : c.status = resp.input.status[1]
        /\ (NoFilters(resp.input) /\ resp.input.status # None) =>
              resp.result.value = {c \in classes : c.status = resp.input.status[1]}

\* C6 witness: an unfiltered searchClasses returned some class and left out a
\* stored class that is not ACTIVE.
C6_Witness ==
    /\ resp.op = "searchClasses"
    /\ resp.result.status = "ok"
    /\ NoFilters(resp.input) /\ resp.input.status = None
    /\ resp.result.value # {}
    /\ \E c \in classes : c.status # "ACTIVE"

\* C7: searchClasses and search both apply the default status filter: called
\* without a status neither returns a class that is INACTIVE or ARCHIVED.
C7_EverySearchDefaultsToActive ==
    (/\ resp.op \in {"searchClasses", "search"}
     /\ resp.result.status = "ok"
     /\ resp.input.status = None) =>
        \A c \in resp.result.value : c.status \notin {"INACTIVE", "ARCHIVED"}

(***************************************************************************)
(* Claims about getAttendanceStats, checked under SpecAttendance.          *)
(***************************************************************************)

StatsReturned == stats.op # "idle" /\ stats.result.status = "ok"

\* The days of the records the query returned.
DaysOf(records) == {DateOf(records[k].date) : k \in 1..Len(records)}

\* How many of the records fall on a day, and how many of those are PRESENT.
TotalOn(records, d) ==
    Cardinality({k \in 1..Len(records) : DateOf(records[k].date) = d})

PresentOn(records, d) ==
    Cardinality({k \in 1..Len(records) :
                    DateOf(records[k].date) = d /\ records[k].status = "PRESENT"})

\* A day of the answered call with 3 PRESENT records and 1 record that is not.
ThreeOfFour(i) ==
    /\ PresentOn(stats.records, stats.result.value.trends[i].date) = 3
    /\ TotalOn(stats.records, stats.result.value.trends[i].date) = 4

\* C8 as stated: a day with 3 PRESENT records and 1 absent record has an
\* attendanceRate of 80.
C8_ThreeOfFourIs80 ==
    StatsReturned =>
        \A i \in 1..Len(stats.result.value.trends) :
            ThreeOfFour(i) => stats.result.value.trends[i].attendanceRate = Frac(80, 1)

\* C8 amended: a day with 3 PRESENT records and 1 absent record has an
\* attendanceRate of 75.
C8_ThreeOfFourIs75 ==
    StatsReturned =>
        \A i \in 1..Len(stats.result.value.trends) :
            ThreeOfFour(i) => stats.result.value.trends[i].attendanceRate = Frac(75, 1)

\* C8 witness: the answered call has such a day.
C8_Witness ==
    /\ StatsReturned
    /\ \E i \in 1..Len(stats.result.value.trends) : ThreeOfFour(i)

\* The sum over a set of days of 100 * present / total, as a fraction built
\* day by day from the records themselves.
RECURSIVE RateSumOver(_, _)
RateSumOver(records, days) ==
    IF days = {}
    THEN [num |-> 0, den |-> 1]
    ELSE LET d == CHOOSE x \in days : TRUE
             rest == RateSumOver(records, days \ {d})
         IN  [num |-> rest.num * TotalOn(records, d)
                        + 100 * PresentOn(records, d) * rest.den,
              den |-> rest.den * TotalOn(records, d)]

\* C9: the trends hold one entry per distinct calendar date of the records, with
\* rate = present / total * 100 of that date's records; averageAttendance is the
\* arithmetic mean of those per-day rates; without records the trends are empty
\* and averageAttendance is 0.
C9_PerDayRatesAndTheirMean ==
    StatsReturned =>
        LET records == stats.records
            trends == stats.result.value.trends
            average == stats.result.value.averageAttendance
            days == DaysOf(records)
        IN  /\ Len(trends) = Cardinality(days)
            /\ {trends[i].date : i \in 1..Len(trends)} = days
            /\ \A i \in 1..Len(trends) :
                  /\ trends[i].attendanceRate.den > 0
                  /\ trends[i].attendanceRate.num * TotalOn(records, trends[i].date)
                       = 100 * PresentOn(records, trends[i].date)
                             * trends[i].attendanceRate.den
            /\ average.den > 0
            /\ IF days = {}
               THEN trends = <<>> /\ average.num = 0
               ELSE average.num * Cardinality(days) * RateSumOver(records, days).den
                       = RateSumOver(records, days).num * average.den

\* C9 witness: days with different record counts, where the mean of the per-day
\* rates differs from total present / total records.
C9_Witness ==
    /\ StatsReturned
    /\ Cardinality(DaysOf(stats.records)) = 2
    /\ \E d, e \in DaysOf(stats.records) :
          TotalOn(stats.records, d) # TotalOn(stats.records, e)
    /\ stats.result.value.averageAttendance.num * Len(stats.records)
          # 100 * CountPresent(stats.records) * stats.result.value.averageAttendance.den

(***************************************************************************)
(* Claims about EditTeacherPage, checked under SpecPage.                   *)
(***************************************************************************)

\* The render is over, all three fetches succeeded, and the teacher exists
\* without a teacherProfile.
LoadedWithoutProfile ==
    /\ page.pc = "done"
    /\ page.all.status = "ok"
    /\ page.all.value["teacher"].value # Null
    /\ page.all.value["teacher"].value.teacherProfile \in {Null, Undefined}

\* C10: for a teacher that exists and has no teacherProfile the page shows the
\* form, with initial data whose text fields (name, email, phoneNumber,
\* specialization) are strings, empty when the stored value is null, and whose
\* identifier sets (subjectIds, classIds, campusIds) are empty arrays.
C10_NoProfileGivesDefaults ==
    LoadedWithoutProfile =>
        /\ page.display.state = "form"
        /\ \A f \in {"name", "email", "phoneNumber", "specialization"} :
              Get(page.display.initialData, f).t = "string"
        /\ \A f \in {"name", "email", "phoneNumber"} :
              page.all.value["teacher"].value[f] = Null =>
                  Get(page.display.initialData, f) = Str("")
        /\ Get(page.display.initialData, "specialization") = Str("")
        /\ \A f \in {"subjectIds", "classIds", "campusIds"} :
              Get(page.display.initialData, f) = Arr(<<>>)

\* The fetches of the render that have failed.
FailedFetches == {f \in Fetches : page.fetch[f].status = "error"}

\* What the catch block shows for the failure of fetch f.
ShownFor(f) ==
    IF page.fetch[f].error.isError THEN page.fetch[f].error.message ELSE "Unknown error"

\* The display a finished render must have, read off the id and the answers of
\* the three fetches.
DisplayMatchesFetches ==
    IF page.id = ""
    THEN /\ page.display = [state |-> "invalid", message |-> "Invalid teacher ID"]
         /\ \A f \in Fetches : page.fetch[f] = Pending
    ELSE IF FailedFetches # {}
    THEN /\ page.display.state = "error"
         /\ \E f \in FailedFetches : page.display.message = ShownFor(f)
    ELSE /\ \A f \in Fetches : page.fetch[f].status = "ok"
         /\ IF page.fetch["teacher"].value = Null
            THEN page.display = [state |-> "notFound", message |-> "Teacher not found"]
            ELSE /\ page.display.state = "form"
                 /\ page.display.teacherId = page.id
                 /\ page.display.subjects = page.fetch["subjects"].value
                 /\ page.display.classes = page.fetch["classes"].value

\* C11: whatever the order in which the three fetches complete, the render ends,
\* and it ends in exactly one display state: 'Invalid teacher ID' with no fetch
\* issued for an empty id; the error state when any fetch failed, showing that
\* error's message when it is an Error object and 'Unknown error' otherwise, even
\* when the other two succeeded; 'Teacher not found' when all succeeded and the
\* teacher is null; the form otherwise. Until it ends the render shows nothing.
C11_EndsInOneDisplayState ==
    /\ [](page.pc # "done" => page.display = NoDisplay)
    /\ [](page.pc = "done" => DisplayMatchesFetches)
    /\ <>[](page.pc = "done")

\* C11 witness: the render ended in the error state with 'Unknown error' after
\* the teacher fetch and the subject fetch succeeded and the class fetch threw
\* something that is not an Error object.
C11_Witness ==
    /\ page.pc = "done"
    /\ page.fetch["teacher"].status = "ok"
    /\ page.fetch["teacher"].value # Null
    /\ page.fetch["subjects"].status = "ok"
    /\ page.fetch["classes"] = Throw([isError |-> FALSE])
    /\ page.display = [state |-> "error", message |-> "Unknown error"]

(***************************************************************************)
(* Claims about the record createClass builds, checked under               *)
(* SpecCreateData.                                                         *)
(***************************************************************************)

\* C12 as stated: the record createClass asks the store to create is connected
\* to exactly the supplied classGroupId and campusId, to the supplied buildingId
\* and roomId whenever they are given, and to no building or room when they are
\* omitted.
C12_RelationsMatchWhateverIsGiven ==
    resp.op = "createClassData" =>
        /\ resp.data.classGroupId = resp.input.classGroupId
        /\ resp.data.campusId = resp.input.campusId
        /\ resp.data.buildingId = resp.input.buildingId
        /\ resp.data.roomId = resp.input.roomId

\* The relation the record must hold for an optional identifier: the identifier
\* when it is given and not empty, nothing when it is omitted or empty.
ConnectedTo(optionalId) ==
    IF optionalId = None \/ optionalId = Some("") THEN None ELSE optionalId

\* C12 amended: the record is connected to exactly the supplied classGroupId and
\* campusId, to the supplied buildingId and roomId when they are given and not
\* empty, and to no building or room when they are omitted or given as the empty
\* string.
C12_RelationsMatchNonEmptyIds ==
    resp.op = "createClassData" =>
        /\ resp.data.classGroupId = resp.input.classGroupId
        /\ resp.data.campusId = resp.input.campusId
        /\ resp.data.buildingId = ConnectedTo(resp.input.buildingId)
        /\ resp.data.roomId = ConnectedTo(resp.input.roomId)

\* C12 witness: a record built for an input that omits the building and gives a
\* room, connected to that room, to no building, and to the input's class group
\* and campus.
C12_Witness ==
    /\ resp.op = "createClassData"
    /\ resp.input.buildingId = None
    /\ resp.input.roomId = Some("r1")
    /\ resp.input.classGroupId = "g2"
    /\ resp.input.campusId = "k2"
    /\ resp.data.buildingId = None
    /\ resp.data.roomId = Some("r1")
    /\ resp.data.classGroupId = "g2"
    /\ resp.data.campusId = "k2"

(***************************************************************************)
(* Claims about getHistoricalAnalytics, checked under SpecAnalytics.       *)
(***************************************************************************)

AnalyticsReturned == analytics.op # "idle" /\ analytics.result.status = "ok"

\* Every record of the result set has a non-empty id.
AllIdsNonEmpty(records) == \A k \in 1..Len(records) : records[k].id # ""

====
